---- MODULE Spec2Model ----
(***************************************************************************)
(* Caesar-cipher cryptanalysis engine of src/caesar_bruteforce.py and      *)
(* src/caesar_freq_decrypt.py.                                             *)
(*                                                                         *)
(* A character is its Unicode code point (what ord() returns); a text is   *)
(* a sequence of code points.  A call that can raise returns a record      *)
(* [exc, val]: exc = "none" and val the returned value, or exc the name of *)
(* the exception raised.                                                   *)
(***************************************************************************)
EXTENDS Integers, Sequences, FiniteSets, TLC

\* ---------------------------------------------------------------- bounds
MaxLen == 3
ShiftSpan == 27
MaxTopN == 27

\* The characters texts are drawn from:
\*   97 'a'    66 'B'    49 '1'
\*   255 'y-diaeresis', a lowercase letter whose upper() is 376
\*   223 'sharp s', a lowercase letter whose upper() is "SS"
\*   8560 'small roman numeral one', islower() but not isalpha()
Chars == {97, 66, 49, 255, 223, 8560}

RECURSIVE TextsOfLen(_)
TextsOfLen(n) ==
    IF n = 0 THEN {<<>>}
    ELSE {Append(t, c) : t \in TextsOfLen(n - 1), c \in Chars}

Texts == UNION {TextsOfLen(n) : n \in 0..MaxLen}

Shifts == (0 - ShiftSpan)..ShiftSpan

TopNs == {0 - MaxTopN, -1, 0, 5, MaxTopN}

\* ------------------------------------------------- Python str predicates
\* str.islower / str.isupper / str.isalpha / str.upper on one character,
\* tabulated for ASCII and for the non-ASCII characters of Chars and the
\* characters upper() maps them to.
islower(ch) == ch \in 97..122 \/ ch \in {223, 233, 255, 8560}

isupper(ch) == ch \in 65..90 \/ ch \in {201, 376, 8544}

isalpha(ch) == ch \in 65..90 \/ ch \in 97..122 \/ ch \in {201, 223, 233, 255, 376}

upper(ch) ==
    IF ch \in 97..122 THEN <<ch - 32>>
    ELSE IF ch = 223 THEN <<83, 83>>
    ELSE IF ch = 233 THEN <<201>>
    ELSE IF ch = 255 THEN <<376>>
    ELSE IF ch = 8560 THEN <<8544>>
    ELSE <<ch>>

Ret(v) == [exc |-> "none", val |-> v]

Raise(e) == [exc |-> e, val |-> <<>>]

\* --------------------------------------------- caesar_bruteforce.py
ALPHABET_LOWER == [i \in 1..26 |-> 96 + i]

ALPHABET_UPPER == [i \in 1..26 |-> 64 + i]

N == 26

\* str.index: 0-based position of ch in s, or ValueError.
index(s, ch) ==
    IF \E i \in 1..Len(s) : s[i] = ch
    THEN Ret((CHOOSE i \in 1..Len(s) : s[i] = ch /\ \A j \in 1..(i - 1) : s[j] # ch) - 1)
    ELSE Raise("ValueError")

bf_shift_char(ch, sh) ==
    IF islower(ch) THEN
        LET idx == index(ALPHABET_LOWER, ch)
        IN  IF idx.exc # "none" THEN idx
            ELSE Ret(ALPHABET_LOWER[((idx.val + sh) % N) + 1])
    ELSE IF isupper(ch) THEN
        LET idx == index(ALPHABET_UPPER, ch)
        IN  IF idx.exc # "none" THEN idx
            ELSE Ret(ALPHABET_UPPER[((idx.val + sh) % N) + 1])
    ELSE Ret(ch)

RECURSIVE bf_join(_, _, _, _)
bf_join(text, sh, i, acc) ==
    IF i > Len(text) THEN Ret(acc)
    ELSE LET r == bf_shift_char(text[i], sh)
         IN  IF r.exc # "none" THEN r
             ELSE bf_join(text, sh, i + 1, Append(acc, r.val))

bf_caesar_shift(text, sh) == bf_join(text, sh, 1, <<>>)

\* --------------------------------------------- caesar_freq_decrypt.py
shift_char(ch, sh) ==
    IF islower(ch) THEN ((ch - 97 + sh) % N) + 97
    ELSE IF isupper(ch) THEN ((ch - 65 + sh) % N) + 65
    ELSE ch

caesar_shift(text, sh) == [i \in 1..Len(text) |-> shift_char(text[i], sh)]

\* Expected English letter frequencies, in thousandths of a percent,
\* indexed by the code point of the uppercase letter.
ENGLISH_FREQ ==
    [l \in 65..90 |->
        <<8167, 1492, 2782, 4253, 12702, 2228, 2015, 6094, 6966, 153,
          772, 4025, 2406, 6749, 7507, 1929, 95, 5987, 6327, 9056,
          2758, 978, 2361, 150, 1974, 74>>[l - 64]]

ALPHABET == [i \in 1..26 |-> 64 + i]

\* A Counter: the sequence of <<key, count>> in first-insertion order; a key
\* is the string c.upper(), a sequence of code points.
RECURSIVE Counter(_, _, _)
Counter(cleaned, i, c) ==
    IF i > Len(cleaned) THEN c
    ELSE LET k == cleaned[i]
         IN  IF \E j \in 1..Len(c) : c[j][1] = k
             THEN Counter(cleaned, i + 1,
                          [j \in 1..Len(c) |->
                              IF c[j][1] = k THEN <<k, c[j][2] + 1>> ELSE c[j]])
             ELSE Counter(cleaned, i + 1, Append(c, <<k, 1>>))

RECURSIVE sum_values(_, _)
sum_values(c, i) == IF i > Len(c) THEN 0 ELSE c[i][2] + sum_values(c, i + 1)

get(c, k, default) ==
    IF \E j \in 1..Len(c) : c[j][1] = k
    THEN c[CHOOSE j \in 1..Len(c) : c[j][1] = k][2]
    ELSE default

RECURSIVE cleaned_of(_, _)
cleaned_of(text, i) ==
    IF i > Len(text) THEN <<>>
    ELSE IF isalpha(text[i]) THEN <<upper(text[i])>> \o cleaned_of(text, i + 1)
    ELSE cleaned_of(text, i + 1)

RECURSIVE cleaned_cased(_, _)
cleaned_cased(text, i) ==
    IF i > Len(text) THEN <<>>
    ELSE IF islower(text[i]) \/ isupper(text[i])
         THEN <<upper(text[i])>> \o cleaned_cased(text, i + 1)
    ELSE cleaned_cased(text, i + 1)

\* count_letters keeping the cased characters instead of the alphabetic ones
count_letters_cased(text) ==
    LET c == Counter(cleaned_cased(text, 1), 1, <<>>)
    IN  [counts |-> c, total |-> sum_values(c, 1)]

count_letters(text) ==
    LET c == Counter(cleaned_of(text, 1), 1, <<>>)
    IN  [counts |-> c, total |-> sum_values(c, 1)]

\* Scores.  float('inf') is the record inf; a finite score is carried in
\* units of 10^-5 (expected = ENGLISH_FREQ * total / 100 is then the integer
\* ENGLISH_FREQ[l] * total), each letter's contribution rounded down.
inf == [isinf |-> TRUE, val |-> 0]

Finite(v) == [isinf |-> FALSE, val |-> v]

UNIT == 100000

Abs(x) == IF x < 0 THEN 0 - x ELSE x

\* floor(r * r / e) for 0 <= r < e, without leaving 32 bits:
\* r^2 / e = e - 2(e - r) + (e - r)^2 / e.
SqDivLow(r, e) ==
    IF 2 * r <= e THEN (r * r) \div e
    ELSE e - 2 * (e - r) + ((e - r) * (e - r)) \div e

\* floor(diff * diff / e) for e > 0: with |diff| = q * e + r,
\* diff^2 / e = q * |diff| + q * r + r^2 / e.
SqDiv(diff, e) ==
    LET a == Abs(diff)
        q == a \div e
        r == a % e
    IN  q * a + q * r + SqDivLow(r, e)

RECURSIVE chi_loop(_, _, _, _)
chi_loop(counts, total, i, score) ==
    IF i > Len(ALPHABET) THEN score
    ELSE LET letter   == ALPHABET[i]
             observed == get(counts, <<letter>>, 0)
             expected == ENGLISH_FREQ[letter] * total
             diff     == observed * UNIT - expected
         IN  chi_loop(counts, total, i + 1,
                      score + SqDiv(diff, IF expected > 0 THEN expected ELSE 1))

chi_squared_score(text) ==
    LET cl == count_letters(text)
    IN  IF cl.total = 0 THEN inf
        ELSE Finite(chi_loop(cl.counts, cl.total, 1, 0))

\* a.score < b.score on floats, inf included
score_lt(a, b) == (~a.isinf) /\ (b.isinf \/ a.val < b.val)

count_desc(a, b) == a[2] > b[2]

\* Counter.most_common() sorts the items by count, descending and stable:
\* an item is inserted after every item placed before it that has at least
\* its count.
RECURSIVE insert_by_count(_, _, _)
insert_by_count(sorted, x, i) ==
    IF i > Len(sorted) THEN Append(sorted, x)
    ELSE IF count_desc(x, sorted[i])
         THEN SubSeq(sorted, 1, i - 1) \o <<x>> \o SubSeq(sorted, i, Len(sorted))
         ELSE insert_by_count(sorted, x, i + 1)

RECURSIVE sort_by_count(_, _, _)
sort_by_count(items, i, acc) ==
    IF i > Len(items) THEN acc
    ELSE sort_by_count(items, i + 1, insert_by_count(acc, items[i], 1))

most_common(c) ==
    LET s == sort_by_count(c, 1, <<>>)
    IN  [j \in 1..Len(s) |-> s[j][1]]

common_targets == <<69, 84, 65, 79, 73, 78, 83, 82, 72, 76>>

MF_CAP == 20

\* ord(s): TypeError unless s is a string of length 1
ord(s) == IF Len(s) = 1 THEN Ret(s[1]) ELSE Raise("TypeError")

\* the inner loop leaving out the last target
RECURSIVE mf_targets_short(_, _, _, _)
mf_targets_short(ctext, cipher_most, j, st) ==
    IF j >= Len(common_targets) THEN Ret(st)
    ELSE LET target == common_targets[j]
         IN  IF <<cipher_most, target>> \in st.mapped
             THEN mf_targets_short(ctext, cipher_most, j + 1, st)
             ELSE LET o == ord(cipher_most)
                  IN  IF o.exc # "none" THEN o
                      ELSE LET sh        == (target - o.val) % N
                               plaintext == caesar_shift(ctext, sh)
                           IN  mf_targets_short(ctext, cipher_most, j + 1,
                                   [mf     |-> Append(st.mf, <<cipher_most, target, sh, plaintext>>),
                                    mapped |-> st.mapped \cup {<<cipher_most, target>>}])

\* inner loop of freq_based_candidates: st = [mf, mapped]
RECURSIVE mf_targets(_, _, _, _)
mf_targets(ctext, cipher_most, j, st) ==
    IF j > Len(common_targets) THEN Ret(st)
    ELSE LET target == common_targets[j]
         IN  IF <<cipher_most, target>> \in st.mapped
             THEN mf_targets(ctext, cipher_most, j + 1, st)
             ELSE LET o == ord(cipher_most)
                  IN  IF o.exc # "none" THEN o
                      ELSE LET sh        == (target - o.val) % N
                               plaintext == caesar_shift(ctext, sh)
                           IN  mf_targets(ctext, cipher_most, j + 1,
                                   [mf     |-> Append(st.mf, <<cipher_most, target, sh, plaintext>>),
                                    mapped |-> st.mapped \cup {<<cipher_most, target>>}])

\* the outer loop testing the cap with > instead of >=
RECURSIVE mf_letters_gt(_, _, _, _)
mf_letters_gt(ctext, mc, i, st) ==
    IF i > Len(mc) THEN Ret(st)
    ELSE LET r == mf_targets(ctext, mc[i], 1, st)
         IN  IF r.exc # "none" THEN r
             ELSE IF Len(r.val.mf) > MF_CAP THEN r
             ELSE mf_letters_gt(ctext, mc, i + 1, r.val)

\* outer loop of freq_based_candidates
RECURSIVE mf_letters(_, _, _, _)
mf_letters(ctext, mc, i, st) ==
    IF i > Len(mc) THEN Ret(st)
    ELSE LET r == mf_targets(ctext, mc[i], 1, st)
         IN  IF r.exc # "none" THEN r
             ELSE IF Len(r.val.mf) >= MF_CAP THEN r
             ELSE mf_letters(ctext, mc, i + 1, r.val)

most_freq(ctext) ==
    LET cl == count_letters(ctext)
    IN  IF cl.total = 0 THEN Ret(<<>>)
        ELSE LET r == mf_letters(ctext, most_common(cl.counts), 1,
                                 [mf |-> <<>>, mapped |-> {}])
             IN  IF r.exc # "none" THEN r ELSE Ret(r.val.mf)

shift_scores(ctext) ==
    [k \in 1..N |->
        LET candidate == caesar_shift(ctext, k - 1)
        IN  <<k - 1, chi_squared_score(candidate), candidate>>]

\* the sort key negated: best match last
by_score_desc(a, b) == score_lt(b[2], a[2])

by_score(a, b) == score_lt(a[2], b[2])

\* shift_scores.sort(key=lambda x: x[1]) is stable: an entry is inserted
\* after every entry placed before it whose score is not greater.
RECURSIVE insert_by_score(_, _, _)
insert_by_score(sorted, x, i) ==
    IF i > Len(sorted) THEN Append(sorted, x)
    ELSE IF by_score(x, sorted[i])
         THEN SubSeq(sorted, 1, i - 1) \o <<x>> \o SubSeq(sorted, i, Len(sorted))
         ELSE insert_by_score(sorted, x, i + 1)

RECURSIVE sort_by_score(_, _, _)
sort_by_score(items, i, acc) ==
    IF i > Len(items) THEN acc
    ELSE sort_by_score(items, i + 1, insert_by_score(acc, items[i], 1))

\* s[:n]
slice_to(s, n) ==
    LET stop == IF n >= 0 THEN (IF n < Len(s) THEN n ELSE Len(s))
                ELSE (IF Len(s) + n > 0 THEN Len(s) + n ELSE 0)
    IN  SubSeq(s, 1, stop)

\* freq_based_candidates up to its return statement
candidates(ctext) ==
    LET mf == most_freq(ctext)
    IN  IF mf.exc # "none" THEN mf
        ELSE Ret([mf_candidates |-> mf.val,
                  shift_scores  |-> sort_by_score(shift_scores(ctext), 1, <<>>)])

\* the return statement of freq_based_candidates
returned(c, n) ==
    IF c.exc # "none" THEN c
    ELSE Ret([most_freq_guesses   |-> c.val.mf_candidates,
              chi_squared_ranking |-> slice_to(c.val.shift_scores, n)])

freq_based_candidates(ctext, n) == returned(candidates(ctext), n)

\* ------------------------------------------------------------- state
VARIABLES
    ciphertext,   \* the text handed to the operation
    shift,        \* the shift handed to caesar_shift
    top_n,        \* the top_n handed to freq_based_candidates
    impl,         \* which module's caesar_shift ran: "bruteforce" / "freq_decrypt"
    pc,           \* "input", then the position reached by the operation applied
    out,          \* result of caesar_shift(ciphertext, shift)
    back,         \* result of caesar_shift(out, (26 - shift) % 26)
    gen_shift,    \* loop variable of the suspended bruteforce_caesar generator
    yielded,      \* the pairs the generator has yielded so far
    runs,         \* how many times bruteforce_caesar was invoked on ciphertext
    first_run,    \* what the first invocation yielded
    score,        \* result of chi_squared_score(ciphertext)
    results       \* result of freq_based_candidates(ciphertext, top_n)

vars == <<ciphertext, shift, top_n, impl, pc, out, back, gen_shift, yielded,
          runs, first_run, score, results>>

NoResults == Ret([most_freq_guesses |-> <<>>, chi_squared_ranking |-> <<>>])

Init ==
    /\ ciphertext \in Texts
    /\ shift = 0
    /\ top_n = 0
    /\ impl = "none"
    /\ pc = "input"
    /\ out = Ret(<<>>)
    /\ back = Ret(<<>>)
    /\ gen_shift = 0
    /\ yielded = <<>>
    /\ runs = 0
    /\ first_run = <<>>
    /\ score = inf
    /\ results = NoResults

\* caesar_bruteforce.caesar_shift(ciphertext, s)
ShiftBruteforce ==
    /\ pc = "input"
    /\ \E s \in Shifts :
        /\ shift' = s
        /\ out' = bf_caesar_shift(ciphertext, s)
    /\ impl' = "bruteforce"
    /\ pc' = "shifted"
    /\ UNCHANGED <<ciphertext, top_n, back, gen_shift, yielded, runs, first_run,
                   score, results>>

\* caesar_freq_decrypt.caesar_shift(ciphertext, s)
ShiftFreqDecrypt ==
    /\ pc = "input"
    /\ \E s \in Shifts :
        /\ shift' = s
        /\ out' = Ret(caesar_shift(ciphertext, s))
    /\ impl' = "freq_decrypt"
    /\ pc' = "shifted"
    /\ UNCHANGED <<ciphertext, top_n, back, gen_shift, yielded, runs, first_run,
                   score, results>>

\* the same module's caesar_shift applied to the result, with (26 - s) mod 26
Unshift ==
    /\ pc = "shifted"
    /\ out.exc = "none"
    /\ back' = IF impl = "bruteforce"
               THEN bf_caesar_shift(out.val, (26 - shift) % 26)
               ELSE Ret(caesar_shift(out.val, (26 - shift) % 26))
    /\ pc' = "unshifted"
    /\ UNCHANGED <<ciphertext, shift, top_n, impl, out, gen_shift, yielded, runs,
                   first_run, score, results>>

\* bruteforce_caesar(ciphertext): a new generator, suspended before the loop
CallBruteforce ==
    /\ \/ pc = "input" /\ first_run' = first_run
       \/ pc = "exhausted" /\ runs = 1 /\ first_run' = yielded
    /\ gen_shift' = 0
    /\ yielded' = <<>>
    /\ runs' = runs + 1
    /\ pc' = "enumerating"
    /\ UNCHANGED <<ciphertext, shift, top_n, impl, out, back, score, results>>

\* next() on the generator while range(N) has a value left: one loop turn
GenNext ==
    /\ pc = "enumerating"
    /\ gen_shift < N
    /\ LET r == bf_caesar_shift(ciphertext, gen_shift)
       IN  IF r.exc # "none"
           THEN /\ pc' = "raised"
                /\ UNCHANGED <<gen_shift, yielded>>
           ELSE /\ yielded' = Append(yielded, <<gen_shift, r.val>>)
                /\ gen_shift' = gen_shift + 1
                /\ pc' = pc
    /\ UNCHANGED <<ciphertext, shift, top_n, impl, out, back, runs, first_run,
                   score, results>>

\* next() on the generator once range(N) is used up: StopIteration
GenStop ==
    /\ pc = "enumerating"
    /\ gen_shift = N
    /\ pc' = "exhausted"
    /\ UNCHANGED <<ciphertext, shift, top_n, impl, out, back, gen_shift, yielded,
                   runs, first_run, score, results>>

\* chi_squared_score(ciphertext)
Score ==
    /\ pc = "input"
    /\ score' = chi_squared_score(ciphertext)
    /\ pc' = "scored"
    /\ UNCHANGED <<ciphertext, shift, top_n, impl, out, back, gen_shift, yielded,
                   runs, first_run, results>>

\* freq_based_candidates(ciphertext, n)
Rank ==
    /\ pc = "input"
    /\ \E c \in {candidates(ciphertext)}, n \in TopNs :
        /\ top_n' = n
        /\ results' = returned(c, n)
    /\ pc' = "ranked"
    /\ UNCHANGED <<ciphertext, shift, impl, out, back, gen_shift, yielded, runs,
                   first_run, score>>

Next ==
    \/ ShiftBruteforce
    \/ ShiftFreqDecrypt
    \/ Unshift
    \/ CallBruteforce
    \/ GenNext
    \/ GenStop
    \/ Score
    \/ Rank

Spec == Init /\ [][Next]_vars

\* ============================================================ properties
Min(a, b) == IF a < b THEN a ELSE b

Max(a, b) == IF a > b THEN a ELSE b

\* number of letters (str.isalpha) in a text
NumLetters(text) == Cardinality({i \in 1..Len(text) : isalpha(text[i])})

\* occurrences of an uppercase ASCII letter in a text, in either case
Observed(text, letter) ==
    Cardinality({i \in 1..Len(text) : isalpha(text[i]) /\ upper(text[i]) = <<letter>>})

\* the distinct uppercased letters of a text
DistinctLetters(text) == {upper(text[i]) : i \in {j \in 1..Len(text) : isalpha(text[j])}}

Ranked == pc = "ranked" /\ results.exc = "none"

\* ---- C1 ----------------------------------------------------------------
\* C1: for every text c and shift s in 0..25, in both modules,
\* caesar_shift(caesar_shift(c, s), (26 - s) mod 26) = c and
\* caesar_shift(c, 0) = c.
C1_RoundTrip ==
    /\ (pc \in {"shifted", "unshifted"} /\ shift \in 0..25) =>
            /\ out.exc = "none"
            /\ (shift = 0 => out.val = ciphertext)
    /\ (pc = "unshifted" /\ shift \in 0..25) => back = Ret(ciphertext)

\* ---- C2 ----------------------------------------------------------------
\* C2: caesar_shift(c, s) has the length of c; a non-letter of c is
\* unchanged at its position and a letter becomes a letter of the same case.
C2_FramePreserved ==
    pc = "shifted" =>
        /\ out.exc = "none"
        /\ Len(out.val) = Len(ciphertext)
        /\ \A i \in 1..Len(ciphertext) :
            /\ ~isalpha(ciphertext[i]) => out.val[i] = ciphertext[i]
            /\ isalpha(ciphertext[i]) =>
                /\ isalpha(out.val[i])
                /\ islower(out.val[i]) = islower(ciphertext[i])
                /\ isupper(out.val[i]) = isupper(ciphertext[i])

\* ---- C3 ----------------------------------------------------------------
\* C3: for any text bruteforce_caesar yields exactly the 26 pairs
\* (k, caesar_shift(ciphertext, k)), k = 0..25 in ascending order, and a
\* second invocation on the same text yields the same sequence.
C3_Enumerates26 ==
    /\ pc # "raised"
    /\ pc \in {"enumerating", "exhausted"} =>
        \A k \in 1..Len(yielded) :
            /\ yielded[k][1] = k - 1
            /\ Ret(yielded[k][2]) = bf_caesar_shift(ciphertext, k - 1)
    /\ pc = "exhausted" => Len(yielded) = 26
    /\ (pc = "exhausted" /\ runs = 2) => yielded = first_run

\* ---- C4 ----------------------------------------------------------------
\* C4: shift_char never raises, for any character and any integer shift,
\* and its result is the result for the shift reduced modulo 26.
C4_AnyShiftAccepted ==
    pc = "shifted" =>
        \A i \in 1..Len(ciphertext) :
            /\ bf_shift_char(ciphertext[i], shift).exc = "none"
            /\ bf_shift_char(ciphertext[i], shift) = bf_shift_char(ciphertext[i], shift % 26)
            /\ shift_char(ciphertext[i], shift) = shift_char(ciphertext[i], shift % 26)

\* ---- C5 ----------------------------------------------------------------
RECURSIVE ChiSquaredSum(_, _)
ChiSquaredSum(text, letter) ==
    IF letter > 90 THEN 0
    ELSE SqDiv(Observed(text, letter) * UNIT - ENGLISH_FREQ[letter] * NumLetters(text),
               ENGLISH_FREQ[letter] * NumLetters(text))
         + ChiSquaredSum(text, letter + 1)

\* C5: chi_squared_score is inf exactly when the text has no letter;
\* otherwise it is finite, at least 0, and the sum over A..Z of
\* (observed - expected)^2 / expected, expected = ENGLISH_FREQ * total / 100.
C5_ChiSquared ==
    pc = "scored" =>
        /\ score.isinf <=> NumLetters(ciphertext) = 0
        /\ NumLetters(ciphertext) > 0 =>
            /\ score.val >= 0
            /\ score.val = ChiSquaredSum(ciphertext, 65)

C5_Witness ==
    /\ pc = "scored"
    /\ NumLetters(ciphertext) > 0
    /\ NumLetters(ciphertext) < Len(ciphertext)
    /\ ~score.isinf
    /\ score.val > 0

\* ---- C6 ----------------------------------------------------------------
\* what s[:top_n] keeps of 26 candidates
SliceLen(n) == IF n >= 0 THEN Min(n, 26) ELSE Max(26 + n, 0)

\* the ranking is sorted ascending by score, its entries are
\* (shift, chi_squared_score(plaintext), caesar_shift(ciphertext, shift))
\* with distinct shifts in 0..25, and no shift left out scores strictly
\* lower than a listed one
RankingSound(r) ==
    \A all \in {[s \in 0..25 |-> chi_squared_score(caesar_shift(ciphertext, s))]} :
        /\ \A k \in 1..Len(r) :
            /\ r[k][1] \in 0..25
            /\ r[k][3] = caesar_shift(ciphertext, r[k][1])
            /\ r[k][2] = all[r[k][1]]
            /\ r[k][2] = chi_squared_score(r[k][3])
        /\ \A j, k \in 1..Len(r) : j < k =>
            /\ r[j][1] # r[k][1]
            /\ ~score_lt(r[k][2], r[j][2])
        /\ \A s \in 0..25 : (\A k \in 1..Len(r) : r[k][1] # s) =>
            \A k \in 1..Len(r) : ~score_lt(all[s], r[k][2])

\* C6 as stated: for any integer top_n the returned ranking has at most
\* top_n entries and is sound in the sense above.
C6_RankingAnyTopN ==
    Ranked =>
        /\ Len(results.val.chi_squared_ranking) <= top_n
        /\ RankingSound(results.val.chi_squared_ranking)

\* C6 amended: the returned ranking has min(top_n, 26) entries when
\* top_n >= 0 and max(26 + top_n, 0) entries when top_n < 0, and is sound.
C6_Ranking ==
    Ranked =>
        /\ Len(results.val.chi_squared_ranking) = SliceLen(top_n)
        /\ top_n >= 0 => Len(results.val.chi_squared_ranking) <= top_n
        /\ RankingSound(results.val.chi_squared_ranking)

C6_Witness ==
    /\ Ranked
    /\ top_n = 5
    /\ Len(results.val.chi_squared_ranking) = 5
    /\ score_lt(results.val.chi_squared_ranking[1][2],
                results.val.chi_squared_ranking[5][2])

\* ---- C7 ----------------------------------------------------------------
\* C7: on a ciphertext without letters freq_based_candidates returns,
\* most_freq_guesses is empty, no candidate is dropped from the ranking
\* (it has the full length top_n selects) and every score in it is inf.
C7_ZeroLetters ==
    (pc = "ranked" /\ NumLetters(ciphertext) = 0) =>
        /\ results.exc = "none"
        /\ results.val.most_freq_guesses = <<>>
        /\ Len(results.val.chi_squared_ranking) = SliceLen(top_n)
        /\ \A k \in 1..Len(results.val.chi_squared_ranking) :
            results.val.chi_squared_ranking[k][2].isinf

\* ---- C8 ----------------------------------------------------------------
\* the position of a cipher letter in the order most_common() gives
CountRank(letter) ==
    Cardinality({l \in DistinctLetters(ciphertext) :
        Cardinality({i \in 1..Len(ciphertext) :
                        isalpha(ciphertext[i]) /\ upper(ciphertext[i]) = l})
        > Cardinality({i \in 1..Len(ciphertext) :
                        isalpha(ciphertext[i]) /\ upper(ciphertext[i]) = letter})})

LetterCount(letter) ==
    Cardinality({i \in 1..Len(ciphertext) :
                    isalpha(ciphertext[i]) /\ upper(ciphertext[i]) = letter})

\* C8: every entry (cipher_letter, target, shift, plaintext) has
\* shift = (target - cipher_letter) mod 26 and plaintext =
\* caesar_shift(ciphertext, shift), so that where the ciphertext holds
\* cipher_letter (in either case) the plaintext holds target in the same
\* case; cipher letters come in descending order of count and each
\* letter's targets in the order E, T, A, O, I, N, S, R, H, L.
C8_Mappings ==
    Ranked =>
        \A mf \in {results.val.most_freq_guesses} :
            /\ \A k \in 1..Len(mf) :
                /\ Len(mf[k][1]) = 1
                /\ mf[k][3] = (mf[k][2] - mf[k][1][1]) % 26
                /\ mf[k][4] = caesar_shift(ciphertext, mf[k][3])
                /\ \A i \in 1..Len(ciphertext) :
                    (isalpha(ciphertext[i]) /\ upper(ciphertext[i]) = mf[k][1]) =>
                        /\ isupper(ciphertext[i]) => mf[k][4][i] = mf[k][2]
                        /\ islower(ciphertext[i]) => mf[k][4][i] = mf[k][2] + 32
            /\ \A j, k \in 1..Len(mf) : j < k =>
                /\ LetterCount(mf[j][1]) >= LetterCount(mf[k][1])
                /\ mf[j][1] = mf[k][1] =>
                    \E a, b \in 1..10 :
                        /\ a < b
                        /\ mf[j][2] = <<69, 84, 65, 79, 73, 78, 83, 82, 72, 76>>[a]
                        /\ mf[k][2] = <<69, 84, 65, 79, 73, 78, 83, 82, 72, 76>>[b]

\* ---- C9 ----------------------------------------------------------------
\* C9: most_freq_guesses never has more than 20 entries and no
\* (cipher letter, target letter) pair occurs in it twice.
C9_CapAndNoDuplicates ==
    Ranked =>
        \A mf \in {results.val.most_freq_guesses} :
            /\ Len(mf) <= 20
            /\ \A j, k \in 1..Len(mf) :
                j # k => <<mf[j][1], mf[j][2]>> # <<mf[k][1], mf[k][2]>>

\* the cap stopped the loop while a ciphertext letter was still unprocessed
C9_Witness ==
    /\ Ranked
    /\ Cardinality(DistinctLetters(ciphertext)) >= 3
    /\ Len(results.val.most_freq_guesses) = 20

\* ---- C10 ---------------------------------------------------------------
\* number of entries of most_freq_guesses for one cipher letter
EntriesOf(mf, letter) == Cardinality({k \in 1..Len(mf) : mf[k][1] = letter})

\* the cap cut the list: some letter of the ciphertext has no entry
CapCut(mf) == \E l \in DistinctLetters(ciphertext) : EntriesOf(mf, l) = 0

\* C10 as stated: when the cap stops the loop it stops it inside a cipher
\* letter's list of 10 targets, leaving that letter with some but not all
\* of its 10 target mappings.
C10_TruncatedInsideLetter ==
    (Ranked /\ CapCut(results.val.most_freq_guesses)) =>
        \E l \in DistinctLetters(ciphertext) :
            EntriesOf(results.val.most_freq_guesses, l) \in 1..9

\* C10 amended: the cap is tested only after a cipher letter's 10 targets
\* are all appended, so every cipher letter that occurs in
\* most_freq_guesses has all 10 target mappings, in the order E..L, and
\* the list is cut only between letters.
C10_CleanBoundary ==
    Ranked =>
        \A mf \in {results.val.most_freq_guesses} :
            /\ Len(mf) % 10 = 0
            /\ \A l \in DistinctLetters(ciphertext) : EntriesOf(mf, l) \in {0, 10}
            /\ \A k \in 1..Len(mf) :
                /\ mf[k][2] = <<69, 84, 65, 79, 73, 78, 83, 82, 72, 76>>[((k - 1) % 10) + 1]
                /\ mf[k][1] = mf[k - ((k - 1) % 10)][1]

C10_Witness ==
    /\ Ranked
    /\ CapCut(results.val.most_freq_guesses)
    /\ Len(results.val.most_freq_guesses) = 20
    /\ results.val.most_freq_guesses[11][1] # results.val.most_freq_guesses[10][1]
====
